---------------------------- MODULE Spec2Model ----------------------------
(***************************************************************************)
(* The /api/review route handler of the CV Review App                      *)
(* (src/app/page.tsx, the route part from line 937 on): form validation,   *)
(* file text extraction, prompt building, the model call, the two-step     *)
(* JSON parse of the completion and the field sanitization.                *)
(*                                                                         *)
(* Strings are sequences of one-character strings.  Numbers are held in    *)
(* tenths (the integer 45 is the number 4.5), so that rounding is visible. *)
(* A completion's content is a sequence of lexemes: an opening brace, a    *)
(* closing brace, a run of prose, a JSON literal that is not an object, or *)
(* one "key": value member of an object.                                   *)
(***************************************************************************)
EXTENDS Integers, Sequences, FiniteSets, TLC

(***************************************************************************)
(* Bounds of the model.                                                    *)
(***************************************************************************)
MaxText == 2
MaxTokens == 4
MaxBase == 2
MaxRep == 11
MaxScoreStr == 2
NumSpan == 30

(***************************************************************************)
(* Program constants.                                                      *)
(***************************************************************************)
MaxItems == 10
MinScore == 1
MaxScore == 10

(***************************************************************************)
(* Strings.                                                                *)
(***************************************************************************)
SeqsUpTo(S, n) == UNION {[1..k -> S] : k \in 0..n}

IsSpace(c) == c = " "

RECURSIVE TrimLeft(_)
TrimLeft(s) ==
    IF s = <<>> THEN <<>>
    ELSE IF IsSpace(Head(s)) THEN TrimLeft(Tail(s))
    ELSE s

RECURSIVE TrimRight(_)
TrimRight(s) ==
    IF s = <<>> THEN <<>>
    ELSE IF IsSpace(s[Len(s)]) THEN TrimRight(SubSeq(s, 1, Len(s) - 1))
    ELSE s

Trim(s) == TrimRight(TrimLeft(s))

Contains(s, t) ==
    \E i \in 0..(Len(s) - Len(t)) : SubSeq(s, i + 1, i + Len(t)) = t

Digits == <<"0", "1", "2", "3", "4", "5", "6", "7", "8", "9">>

IsDigit(c) == \E d \in 1..Len(Digits) : Digits[d] = c

DigitValue(c) == (CHOOSE d \in 1..Len(Digits) : Digits[d] = c) - 1

RECURSIVE NatToString(_)
NatToString(n) ==
    IF n < 10 THEN <<Digits[n + 1]>>
    ELSE NatToString(n \div 10) \o <<Digits[(n % 10) + 1]>>

RECURSIVE DigitsToNat(_)
DigitsToNat(s) ==
    IF s = <<>> THEN 0
    ELSE 10 * DigitsToNat(SubSeq(s, 1, Len(s) - 1)) + DigitValue(s[Len(s)])

Abs(n) == IF n < 0 THEN 0 - n ELSE n

\* String(x) of a finite number x, n being x in tenths.
NumberToString(n) ==
    (IF n < 0 THEN <<"-">> ELSE <<>>)
        \o NatToString(Abs(n) \div 10)
        \o (IF Abs(n) % 10 = 0 THEN <<>> ELSE <<".", Digits[(Abs(n) % 10) + 1]>>)

(***************************************************************************)
(* JSON values.  t is the type tag; n the number in tenths, or 1/0 for a   *)
(* boolean; s the characters of a string; a the elements of an array.      *)
(* "undef" is JavaScript's undefined (an absent property), "inf" the       *)
(* number Infinity (JSON.parse of 1e999), "obj" a nested object.           *)
(***************************************************************************)
Val(t, n, s, a) == [t |-> t, n |-> n, s |-> s, a |-> a]

Undefined == Val("undef", 0, <<>>, <<>>)
Null == Val("null", 0, <<>>, <<>>)
True == Val("bool", 1, <<>>, <<>>)
False == Val("bool", 0, <<>>, <<>>)
Num(n) == Val("num", n, <<>>, <<>>)
Infinity == Val("inf", 0, <<>>, <<>>)
StrVal(s) == Val("str", 0, s, <<>>)
Arr(a) == Val("arr", 0, <<>>, a)
NestedObj == Val("obj", 0, <<>>, <<>>)

\* String(x) of a value that is not an array.
ScalarStringOf(v) ==
    CASE v.t = "str" -> v.s
      [] v.t = "num" -> NumberToString(v.n)
      [] v.t = "inf" -> <<"I", "n", "f", "i", "n", "i", "t", "y">>
      [] v.t = "null" -> <<"n", "u", "l", "l">>
      [] v.t = "undef" -> <<"u", "n", "d", "e", "f", "i", "n", "e", "d">>
      [] v.t = "bool" ->
            IF v.n = 1 THEN <<"t", "r", "u", "e">>
            ELSE <<"f", "a", "l", "s", "e">>
      [] OTHER -> <<"[", "o", "b", "j", "e", "c", "t", " ", "O", "b", "j", "e", "c", "t", "]">>

\* Array.prototype.join(","): null and undefined elements give the empty string.
RECURSIVE JoinElements(_)
JoinElements(a) ==
    IF a = <<>> THEN <<>>
    ELSE LET e == a[Len(a)]
             es == IF e.t \in {"null", "undef"} THEN <<>>
                   ELSE IF e.t = "arr" THEN JoinElements(e.a)
                   ELSE ScalarStringOf(e)
         IN IF Len(a) = 1 THEN es
            ELSE JoinElements(SubSeq(a, 1, Len(a) - 1)) \o <<",">> \o es

\* String(x), the conversion x.map(String) applies.
StringOf(v) == IF v.t = "arr" THEN JoinElements(v.a) ELSE ScalarStringOf(v)

\* A numeric coercion's result: k is "fin", "nan" or "inf"; n the tenths.
Finite(n) == [k |-> "fin", n |-> n]
NaN == [k |-> "nan", n |-> 0]
Inf == [k |-> "inf", n |-> 0]

\* Number(s) of a string: blank is 0, a decimal literal its value, else NaN.
\* Literals are read to one fractional digit, the precision numbers are held in.
StringToNumber(s) ==
    LET t == Trim(s)
        neg == t # <<>> /\ t[1] = "-"
        u == IF t # <<>> /\ t[1] \in {"-", "+"} THEN Tail(t) ELSE t
        dots == {i \in 1..Len(u) : u[i] = "."}
        ip == IF dots = {} THEN u
              ELSE SubSeq(u, 1, (CHOOSE i \in dots : TRUE) - 1)
        fp == IF dots = {} THEN <<>>
              ELSE SubSeq(u, (CHOOSE i \in dots : TRUE) + 1, Len(u))
        mag == 10 * DigitsToNat(ip) + (IF fp = <<>> THEN 0 ELSE DigitValue(fp[1]))
    IN  IF t = <<>> THEN Finite(0)
        ELSE IF t = <<"I", "n", "f", "i", "n", "i", "t", "y">> THEN Inf
        ELSE IF /\ Cardinality(dots) <= 1
                /\ Len(ip) + Len(fp) >= 1
                /\ Len(fp) <= 1
                /\ \A i \in 1..Len(ip) : IsDigit(ip[i])
                /\ \A i \in 1..Len(fp) : IsDigit(fp[i])
             THEN Finite(IF neg THEN 0 - mag ELSE mag)
        ELSE NaN

\* Variant: parseFloat(x) in place of Number(x), for which null and a blank
\* string are not numbers.
ParseFloat(v) ==
    CASE v.t = "num" -> Finite(v.n)
      [] v.t = "inf" -> Inf
      [] v.t = "str" -> IF Trim(v.s) = <<>> THEN NaN ELSE StringToNumber(v.s)
      [] v.t = "arr" ->
            IF Trim(JoinElements(v.a)) = <<>> THEN NaN
            ELSE StringToNumber(JoinElements(v.a))
      [] OTHER -> NaN

\* Number(x).
ToNumber(v) ==
    CASE v.t = "num" -> Finite(v.n)
      [] v.t = "inf" -> Inf
      [] v.t = "null" -> Finite(0)
      [] v.t = "bool" -> Finite(10 * v.n)
      [] v.t = "str" -> StringToNumber(v.s)
      [] v.t = "arr" -> StringToNumber(JoinElements(v.a))
      [] OTHER -> NaN

(***************************************************************************)
(* Lexemes of a completion's content, and JSON.parse over them.            *)
(***************************************************************************)
Keys == {"strengths", "weaknesses", "suggestions", "score"}

Tok(k, key, val) == [k |-> k, key |-> key, val |-> val]

LBrace == Tok("lb", "", Undefined)
RBrace == Tok("rb", "", Undefined)
Prose == Tok("prose", "", Undefined)
Atom(v) == Tok("atom", "", v)
Member(key, v) == Tok("member", key, v)

\* The value of property key of the object whose members are ms, in order:
\* the last member of that name wins, and an absent property is undefined.
RECURSIVE Property(_, _)
Property(ms, key) ==
    IF ms = <<>> THEN Undefined
    ELSE IF ms[Len(ms)].key = key THEN ms[Len(ms)].val
    ELSE Property(SubSeq(ms, 1, Len(ms) - 1), key)

NoFields == [key \in Keys |-> Undefined]

ParseError == [ok |-> FALSE, isObj |-> FALSE, atom |-> Undefined, fields |-> NoFields]

\* JSON.parse(c): a single literal, or an object "{" member ... "}";
\* anything else is a SyntaxError (ok = FALSE).
JSONParse(c) ==
    IF Len(c) = 1 /\ c[1].k = "atom"
    THEN [ok |-> TRUE, isObj |-> FALSE, atom |-> c[1].val, fields |-> NoFields]
    ELSE IF /\ Len(c) >= 2
            /\ c[1].k = "lb"
            /\ c[Len(c)].k = "rb"
            /\ \A i \in 2..(Len(c) - 1) : c[i].k = "member"
    THEN [ok |-> TRUE, isObj |-> TRUE, atom |-> Undefined,
          fields |-> [key \in Keys |-> Property(SubSeq(c, 2, Len(c) - 1), key)]]
    ELSE ParseError

\* content.match(/\{[\s\S]*\}/): from the first "{" to the last "}".
RegexMatch(c) ==
    LET lbs == {i \in 1..Len(c) : c[i].k = "lb"}
        first == CHOOSE i \in lbs : \A j \in lbs : i <= j
        rbs == {i \in 1..Len(c) : c[i].k = "rb" /\ i > first}
        last == CHOOSE i \in rbs : \A j \in rbs : j <= i
    IN  IF lbs = {} \/ rbs = {} THEN [found |-> FALSE, sub |-> <<>>]
        ELSE [found |-> TRUE, sub |-> SubSeq(c, first, last)]

\* Variant: an object with none of the four fields counts as no result.
TruthyNonEmpty(p) ==
    \/ p.isObj /\ \E key \in Keys : p.fields[key] # Undefined
    \/ p.atom.t \in {"arr", "inf", "obj"}
    \/ p.atom.t = "str" /\ p.atom.s # <<>>
    \/ p.atom.t \in {"num", "bool"} /\ p.atom.n # 0

\* JavaScript truthiness of a parsed value, as !parsed reads it.
Truthy(p) ==
    \/ p.isObj
    \/ p.atom.t \in {"arr", "inf", "obj"}
    \/ p.atom.t = "str" /\ p.atom.s # <<>>
    \/ p.atom.t \in {"num", "bool"} /\ p.atom.n # 0

\* (parsed as any).key: a property of an object; undefined on anything else.
Field(p, key) == IF p.isObj THEN p.fields[key] ELSE Undefined

(***************************************************************************)
(* Field sanitization.                                                     *)
(***************************************************************************)
RECURSIVE MapString(_)
MapString(a) ==
    IF a = <<>> THEN <<>>
    ELSE <<StringOf(Head(a))>> \o MapString(Tail(a))

RECURSIVE FilterBoolean(_)
FilterBoolean(l) ==
    IF l = <<>> THEN <<>>
    ELSE IF Head(l) # <<>> THEN <<Head(l)>> \o FilterBoolean(Tail(l))
    ELSE FilterBoolean(Tail(l))

\* Variant: the empty strings are kept.
sanitizeArrayUnfiltered(x) == IF x.t = "arr" THEN MapString(x.a) ELSE <<>>

sanitizeArray(x) == IF x.t = "arr" THEN FilterBoolean(MapString(x.a)) ELSE <<>>

\* Variant: the cut is one entry short.
SliceShort(l, n) == SubSeq(l, 1, IF Len(l) < n - 1 THEN Len(l) ELSE n - 1)

Slice(l, n) == SubSeq(l, 1, IF Len(l) < n THEN Len(l) ELSE n)

sanitizeList(x) == Slice(sanitizeArray(x), MaxItems)

Min(a, b) == IF a < b THEN a ELSE b
Max(a, b) == IF a > b THEN a ELSE b

\* Variant: Math.floor in place of Math.round.
RoundDown(n) == n \div 10

\* Math.round of a number in tenths: the nearest integer, halves upwards.
Round(n) == (n + 5) \div 10

\* Variant: the clamp without its lower end.
sanitizeScoreNoFloor(x) ==
    LET scoreNum == ToNumber(x)
    IN  IF scoreNum.k = "fin"
        THEN Min(MaxScore, Round(scoreNum.n))
        ELSE 0

sanitizeScore(x) ==
    LET scoreNum == ToNumber(x)
    IN  IF scoreNum.k = "fin"
        THEN Min(MaxScore, Max(MinScore, Round(scoreNum.n)))
        ELSE 0

EmptyReview ==
    [strengths |-> <<>>, weaknesses |-> <<>>, suggestions |-> <<>>, score |-> 0]

sanitize(p) ==
    [strengths |-> sanitizeList(Field(p, "strengths")),
     weaknesses |-> sanitizeList(Field(p, "weaknesses")),
     suggestions |-> sanitizeList(Field(p, "suggestions")),
     score |-> sanitizeScore(Field(p, "score"))]

(***************************************************************************)
(* Responses.                                                              *)
(***************************************************************************)
NoResponse == [status |-> 0, kind |-> "none", error |-> "", review |-> EmptyReview]

ErrorResponse(status, msg) ==
    [status |-> status, kind |-> "error", error |-> msg, review |-> EmptyReview]

ReviewResponse(review) ==
    [status |-> 200, kind |-> "review", error |-> "", review |-> review]

\* a || b on strings.
OrElse(a, b) == IF a # "" THEN a ELSE b

(***************************************************************************)
(* The submitted form: formData.get('text') and formData.get('file').      *)
(***************************************************************************)
NoText == [present |-> FALSE, value |-> <<>>]
TextPart(s) == [present |-> TRUE, value |-> s]

PDF == "application/pdf"
DOCX == "application/vnd.openxmlformats-officedocument.wordprocessingml.document"
PLAIN == "text/plain"
PNG == "image/png"

\* content: the text the bytes hold; corrupt: the bytes are not a well-formed
\* document of a structured format, so that its decoder throws.
NoFile == [present |-> FALSE, type |-> "", content |-> <<>>, corrupt |-> FALSE]
FilePart(type, content, corrupt) ==
    [present |-> TRUE, type |-> type, content |-> content, corrupt |-> corrupt]

\* The content types of a request body.
FormData == "multipart/form-data"
Json == "application/json"

\* !text: null and the empty string are falsy.
TextGiven(t) == t.present /\ t.value # <<>>

\* text || ''
TextOrEmpty(t) == IF TextGiven(t) THEN t.value ELSE <<>>

Returned(s) == [ok |-> TRUE, text |-> s, message |-> ""]
Thrown(msg) == [ok |-> FALSE, text |-> <<>>, message |-> msg]

\* await req.formData(): rejects with a TypeError unless the body is a form.
formData(b) ==
    IF b = FormData THEN Returned(<<>>)
    ELSE Thrown("Content-Type was not one of \"multipart/form-data\" or \"application/x-www-form-urlencoded\".")

extractTextFromPdf(f) ==
    IF f.corrupt THEN Thrown("Failed to extract text from PDF")
    ELSE Returned(f.content)

extractTextFromDocx(f) ==
    IF f.corrupt THEN Thrown("Failed to extract text from DOCX")
    ELSE Returned(f.content)

\* Variant: a file of any other type is decoded as text.
processFileAnyType(f) ==
    IF f.type = PDF THEN extractTextFromPdf(f)
    ELSE IF f.type = DOCX THEN extractTextFromDocx(f)
    ELSE Returned(f.content)

processFile(f) ==
    IF f.type = PDF THEN extractTextFromPdf(f)
    ELSE IF f.type = DOCX THEN extractTextFromDocx(f)
    ELSE IF f.type = PLAIN THEN Returned(f.content)
    ELSE Thrown("Unsupported file type. Please upload a PDF, DOCX, or text file.")

\* The fixed template around the CV text, held as two opaque pieces.
PromptHead == <<"You are an expert career coach and recruiter. [...] CV:", "\"\"\"">>
PromptTail == <<"\"\"\"">>

\* Variant: the CV text is trimmed before it is embedded.
buildPromptTrimmed(cv) == PromptHead \o Trim(cv) \o PromptTail

buildPrompt(cv) == PromptHead \o cv \o PromptTail

(***************************************************************************)
(* What the model call gives back: a thrown error with its message, or a   *)
(* completion with or without a first choice and message content.          *)
(***************************************************************************)
NoCompletion ==
    [threw |-> FALSE, message |-> "", choice |-> FALSE, hasContent |-> FALSE,
     content |-> <<>>]

CallThrew(msg) == [NoCompletion EXCEPT !.threw = TRUE, !.message = msg]

NoChoices == NoCompletion

NullContent == [NoCompletion EXCEPT !.choice = TRUE]

Content(c) == [NoCompletion EXCEPT !.choice = TRUE, !.hasContent = TRUE, !.content = c]

\* Variant: the missing content defaults to the empty string.
ContentOrEmpty(cpl) == IF cpl.choice /\ cpl.hasContent THEN cpl.content ELSE <<>>

\* completion.choices?.[0]?.message?.content ?? '{}'
ContentOrDefault(cpl) ==
    IF cpl.choice /\ cpl.hasContent THEN cpl.content ELSE <<LBrace, RBrace>>

\* Variant: no second attempt on the substring.
TryParseWholeOnly(content) ==
    IF JSONParse(content).ok
    THEN [threw |-> FALSE, isNull |-> FALSE, parsed |-> JSONParse(content)]
    ELSE [threw |-> FALSE, isNull |-> TRUE, parsed |-> ParseError]

\* The two parse attempts: the outcome is a parsed value, null (parsed stays
\* null when nothing matches), or the SyntaxError the second JSON.parse
\* throws from inside the catch block.
TryParse(content) ==
    LET whole == JSONParse(content)
        match == RegexMatch(content)
        inner == JSONParse(match.sub)
    IN  IF whole.ok THEN [threw |-> FALSE, isNull |-> FALSE, parsed |-> whole]
        ELSE IF ~match.found THEN [threw |-> FALSE, isNull |-> TRUE, parsed |-> ParseError]
        ELSE IF inner.ok THEN [threw |-> FALSE, isNull |-> FALSE, parsed |-> inner]
        ELSE [threw |-> TRUE, isNull |-> TRUE, parsed |-> ParseError]

\* Variant: the outer catch lets the error go.
CaughtResponseRethrown(msg) == NoResponse

\* The handler's outer catch.
CaughtResponse(msg) == ErrorResponse(500, OrElse(msg, "Unexpected server error"))

\* Variant: no check of parsed before it is read.
FinishNoNullCheck(cpl) ==
    LET content == ContentOrDefault(cpl)
        got == TryParse(content)
    IN  IF cpl.threw THEN CaughtResponse(cpl.message)
        ELSE IF got.threw THEN CaughtResponse("Unexpected token in JSON")
        ELSE IF got.isNull
        THEN CaughtResponse("Cannot read properties of null (reading 'strengths')")
        ELSE ReviewResponse(sanitize(got.parsed))

\* The handler from the completion to its response.
Finish(cpl) ==
    LET content == ContentOrDefault(cpl)
        got == TryParse(content)
    IN  IF cpl.threw THEN CaughtResponse(cpl.message)
        ELSE IF got.threw THEN CaughtResponse("Unexpected token in JSON")
        ELSE IF got.isNull \/ ~Truthy(got.parsed)
        THEN ErrorResponse(502, "Failed to parse model response")
        ELSE ReviewResponse(sanitize(got.parsed))

\* Variant: the emptiness check without the trim.
SelectUntrimmed(cv) ==
    IF cv = <<>>
    THEN [pc |-> "done", cvText |-> cv, prompt |-> <<>>, calls |-> 0,
          resp |-> ErrorResponse(400, "No text content found to analyze")]
    ELSE [pc |-> "await", cvText |-> cv, prompt |-> buildPrompt(cv), calls |-> 1,
          resp |-> NoResponse]

\* The handler from the selected CV text to the model call: the emptiness
\* check, then the one call with the built prompt as the user turn.
Select(cv) ==
    IF Trim(cv) = <<>>
    THEN [pc |-> "done", cvText |-> cv, prompt |-> <<>>, calls |-> 0,
          resp |-> ErrorResponse(400, "No text content found to analyze")]
    ELSE [pc |-> "await", cvText |-> cv, prompt |-> buildPrompt(cv), calls |-> 1,
          resp |-> NoResponse]

\* Variant: the API key is checked before the form.
ValidatedKeyFirst(t, f, key) ==
    IF ~key
    THEN [pc |-> "done", cvText |-> <<>>, prompt |-> <<>>, calls |-> 0,
          resp |-> ErrorResponse(500, "OPENAI_API_KEY is not set on server")]
    ELSE IF ~TextGiven(t) /\ ~f.present
    THEN [pc |-> "done", cvText |-> <<>>, prompt |-> <<>>, calls |-> 0,
          resp |-> ErrorResponse(400, "Either text or file must be provided")]
    ELSE IF f.present
    THEN [pc |-> "extract", cvText |-> TextOrEmpty(t), prompt |-> <<>>, calls |-> 0,
          resp |-> NoResponse]
    ELSE Select(TextOrEmpty(t))

\* Variant: no check of the API key.
ValidatedNoKeyCheck(t, f, key) ==
    IF ~TextGiven(t) /\ ~f.present
    THEN [pc |-> "done", cvText |-> <<>>, prompt |-> <<>>, calls |-> 0,
          resp |-> ErrorResponse(400, "Either text or file must be provided")]
    ELSE IF f.present
    THEN [pc |-> "extract", cvText |-> TextOrEmpty(t), prompt |-> <<>>, calls |-> 0,
          resp |-> NoResponse]
    ELSE Select(TextOrEmpty(t))

\* The handler from the form to its first await after it.
Validated(t, f, key) ==
    IF ~TextGiven(t) /\ ~f.present
    THEN [pc |-> "done", cvText |-> <<>>, prompt |-> <<>>, calls |-> 0,
          resp |-> ErrorResponse(400, "Either text or file must be provided")]
    ELSE IF ~key
    THEN [pc |-> "done", cvText |-> <<>>, prompt |-> <<>>, calls |-> 0,
          resp |-> ErrorResponse(500, "OPENAI_API_KEY is not set on server")]
    ELSE IF f.present
    THEN [pc |-> "extract", cvText |-> TextOrEmpty(t), prompt |-> <<>>, calls |-> 0,
          resp |-> NoResponse]
    ELSE Select(TextOrEmpty(t))

\* Variant: an empty extraction falls back to the text part.
ExtractedOrText(f, cv) ==
    LET got == processFile(f)
    IN  IF ~got.ok
        THEN [pc |-> "done", cvText |-> cv, prompt |-> <<>>, calls |-> 0,
              resp |-> ErrorResponse(400, OrElse(got.message, "Error processing file"))]
        ELSE Select(IF got.text = <<>> THEN cv ELSE got.text)

\* The handler from processFile's outcome on; cv is cvText before it.
Extracted(f, cv) ==
    LET got == processFile(f)
    IN  IF ~got.ok
        THEN [pc |-> "done", cvText |-> cv, prompt |-> <<>>, calls |-> 0,
              resp |-> ErrorResponse(400, OrElse(got.message, "Error processing file"))]
        ELSE Select(got.text)

(***************************************************************************)
(* The page.  The source holds two HomePage components, "first" (lines     *)
(* 18-295) and "second" (lines 331-935); a state of either is a record of  *)
(* its useState values.  error is "" when null (the page only ever sets a  *)
(* non-empty message), preview is whether an object URL was made, and      *)
(* extractedText, null throughout, is left out.                            *)
(***************************************************************************)
Kilo == 1024

maxSize == 5 * Kilo * Kilo

Sizes == <<"Bytes", "KB", "MB", "GB">>

\* floor(log(bytes) / log(1024)) for bytes below 1024^4.
UnitIndex(bytes) ==
    IF bytes < Kilo THEN 0
    ELSE IF bytes < Kilo * Kilo THEN 1
    ELSE IF bytes < Kilo * Kilo * Kilo THEN 2
    ELSE 3

Power(i) ==
    IF i = 0 THEN 1
    ELSE IF i = 1 THEN Kilo
    ELSE IF i = 2 THEN Kilo * Kilo
    ELSE Kilo * Kilo * Kilo

\* parseFloat(x.toFixed(2)) of h hundredths, as text.
FixedToString(h) ==
    IF h % 100 = 0 THEN NatToString(h \div 100)
    ELSE IF h % 10 = 0
    THEN NatToString(h \div 100) \o <<".">> \o NatToString((h % 100) \div 10)
    ELSE NatToString(h \div 100) \o <<".">> \o NatToString((h % 100) \div 10)
             \o NatToString(h % 10)

formatFileSize(bytes) ==
    IF bytes = 0 THEN <<"0", " ", "Bytes">>
    ELSE LET i == UnitIndex(bytes)
             h == (2 * 100 * bytes + Power(i)) \div (2 * Power(i))
         IN  FixedToString(h) \o <<" ", Sizes[i + 1]>>

NoUserFile == [present |-> FALSE, name |-> "", type |-> "", size |-> 0]

UserFile(name, type, size) ==
    [present |-> TRUE, name |-> name, type |-> type, size |-> size]

NoFileState ==
    [file |-> NoUserFile, preview |-> FALSE, fileName |-> "", fileSize |-> <<>>,
     fileType |-> ""]

NoReview == [present |-> FALSE, data |-> EmptyReview]

Mounted(c) ==
    [component |-> c, text |-> <<>>, fileState |-> NoFileState,
     review |-> NoReview, loading |-> FALSE, error |-> "", isDragging |-> FALSE]

\* file.type.startsWith('image/')
IsImage(type) == type = PNG

validTypes == {PDF, DOCX, PLAIN}

\* Variant: accepting a file leaves the text as it is.
HomePage_processFileKeepText(h, f) ==
    IF f.type \notin validTypes
    THEN [h EXCEPT !.error = "Please upload a valid file type (PDF, DOCX, or TXT)"]
    ELSE IF f.size > maxSize
    THEN [h EXCEPT !.error = "File size should not exceed 5MB"]
    ELSE [h EXCEPT
            !.fileState = [file |-> f, preview |-> IsImage(f.type),
                           fileName |-> f.name,
                           fileSize |-> formatFileSize(f.size),
                           fileType |-> f.type],
            !.error = ""]

\* processFile of the second component.
HomePage_processFile(h, f) ==
    IF f.type \notin validTypes
    THEN [h EXCEPT !.error = "Please upload a valid file type (PDF, DOCX, or TXT)"]
    ELSE IF f.size > maxSize
    THEN [h EXCEPT !.error = "File size should not exceed 5MB"]
    ELSE [h EXCEPT
            !.fileState = [file |-> f, preview |-> IsImage(f.type),
                           fileName |-> f.name,
                           fileSize |-> formatFileSize(f.size),
                           fileType |-> f.type],
            !.text = <<>>,
            !.error = ""]

\* handleFileChange of either component; f is e.target.files?.[0].
handleFileChange(h, f) ==
    IF ~f.present THEN h
    ELSE IF h.component = "first"
    THEN [h EXCEPT
            !.fileState = [NoFileState EXCEPT !.file = f,
                                              !.preview = IsImage(f.type)],
            !.text = <<>>]
    ELSE HomePage_processFile(h, f)

\* f is e.dataTransfer.files?.[0].
handleDrop(h, f) ==
    IF f.present THEN HomePage_processFile([h EXCEPT !.isDragging = FALSE], f)
    ELSE [h EXCEPT !.isDragging = FALSE]

handleDragOver(h) == [h EXCEPT !.isDragging = TRUE]

handleDragLeave(h) == [h EXCEPT !.isDragging = FALSE]

resetForm(h) ==
    [h EXCEPT !.text = <<>>, !.fileState = NoFileState, !.review = NoReview,
              !.error = ""]

\* The Clear button of the first component.
Clear(h) == [h EXCEPT !.fileState = NoFileState, !.text = <<>>]

\* The textarea's onChange of either component; v is e.target.value.  The
\* updates of one handler are applied in order, so that in the second
\* component resetForm's setText('') follows setText(v).
onChange(h, v) ==
    IF ~h.fileState.file.present THEN [h EXCEPT !.text = v]
    ELSE IF h.component = "first"
    THEN [h EXCEPT !.text = v, !.fileState = NoFileState]
    ELSE resetForm([h EXCEPT !.text = v])

disabled(h) == h.loading \/ (Trim(h.text) = <<>> /\ ~h.fileState.file.present)

NoForm == [text |-> NoText, file |-> NoUserFile]

\* The FormData handleSubmit builds.
FormOf(h) ==
    [text |-> IF h.text # <<>> THEN TextPart(h.text) ELSE NoText,
     file |-> h.fileState.file]

\* handleSubmit up to its await of fetch.
handleSubmit(h) ==
    IF Trim(h.text) = <<>> /\ ~h.fileState.file.present
    THEN [h EXCEPT !.error = "Please enter text or upload a file"]
    ELSE [h EXCEPT !.loading = TRUE, !.error = "", !.review = NoReview]

\* What fetch and res.json() come to: a rejection with a message, or a
\* status and a body.
FetchThrew(msg) ==
    [threw |-> TRUE, message |-> msg, ok |-> FALSE, error |-> "",
     data |-> EmptyReview]

FetchReturned(ok, error, data) ==
    [threw |-> FALSE, message |-> "", ok |-> ok, error |-> error, data |-> data]

Fallback(h) ==
    IF h.component = "first" THEN "Something went wrong"
    ELSE "Something went wrong. Please try again."

\* handleSubmit from the settled fetch to the end of its finally block.
Settled(h, out) ==
    IF out.threw
    THEN [h EXCEPT !.error = OrElse(out.message, Fallback(h)), !.loading = FALSE]
    ELSE IF ~out.ok
    THEN [h EXCEPT !.error = OrElse(out.error, "Request failed"),
                   !.loading = FALSE]
    ELSE [h EXCEPT !.review = [present |-> TRUE, data |-> out.data],
                   !.loading = FALSE]

\* The last event handled, with the value typed and whether a file was
\* selected when it came, and the form of the last submission.
NoTrace ==
    [event |-> "mount", typed |-> <<>>, hadFile |-> FALSE, formData |-> NoForm]

(***************************************************************************)
(* State.  Every request has its own body, text, file, cvText, prompt,     *)
(* completion and response; apiKey is process.env.OPENAI_API_KEY.  body is *)
(* the content type of the request body; text and file are the parts of a  *)
(* form body, and text the "text" member of a JSON body.                   *)
(***************************************************************************)
VARIABLES apiKey, pc, body, text, file, cvText, prompt, calls, completion, resp,
          home, trace

vars ==
    <<apiKey, pc, body, text, file, cvText, prompt, calls, completion, resp,
      home, trace>>

Requests == {1, 2}

\* The requests that are being handled or have been answered.
Live == {r \in Requests : pc[r] # "off"}

(***************************************************************************)
(* Inputs.                                                                 *)
(***************************************************************************)
TextChars == {" ", "a"}

Texts == {NoText} \cup {TextPart(s) : s \in SeqsUpTo(TextChars, MaxText)}

FileContents == {<<>>, <<" ">>, <<"b">>, <<" ", "b">>}

Files ==
    {NoFile}
        \cup {FilePart(ty, c, k) : ty \in {PDF, DOCX}, c \in FileContents, k \in BOOLEAN}
        \cup {FilePart(ty, c, FALSE) : ty \in {PLAIN, PNG}, c \in FileContents}

ErrMessages == {"", "Connection error."}

ScoreMember == Member("score", Num(70))

StructTokens == {LBrace, RBrace, Prose, ScoreMember}

Literals ==
    {Null, True, False, Num(0), Num(70), StrVal(<<>>), StrVal(<<"a">>),
     Arr(<<>>), Arr(<<StrVal(<<"a">>)>>)}

ParseContents ==
    SeqsUpTo(StructTokens, MaxTokens)
        \cup {<<Atom(v)>> : v \in Literals}
        \cup {<<Prose, Atom(v)>> : v \in Literals}

ParseCompletions == {NoChoices, NullContent} \cup {Content(c) : c \in ParseContents}

InitWith(L, B, T, F, K) ==
    /\ apiKey \in K
    /\ body \in [Requests -> B]
    /\ pc = [r \in Requests |-> IF r \in L THEN "start" ELSE "off"]
    /\ text \in [Requests -> T \cup {NoText}]
    /\ file \in [Requests -> F \cup {NoFile}]
    /\ \A r \in L : text[r] \in T /\ file[r] \in F
    /\ \A r \in L : body[r] # FormData => file[r] = NoFile
    /\ \A r \in Requests \ L : body[r] = FormData
    /\ \A r \in Requests \ L : text[r] = NoText /\ file[r] = NoFile
    /\ cvText = [r \in Requests |-> <<>>]
    /\ prompt = [r \in Requests |-> <<>>]
    /\ calls = [r \in Requests |-> 0]
    /\ completion = [r \in Requests |-> NoCompletion]
    /\ resp = [r \in Requests |-> NoResponse]
    /\ home = Mounted("second")
    /\ trace = NoTrace

\* Variant: cvText is one module-level variable that every request writes.
StepShared(r, st) ==
    /\ pc' = [pc EXCEPT ![r] = st.pc]
    /\ cvText' = [q \in Requests |-> st.cvText]
    /\ prompt' = [prompt EXCEPT ![r] = st.prompt]
    /\ calls' = [calls EXCEPT ![r] = calls[r] + st.calls]
    /\ resp' = [resp EXCEPT ![r] = st.resp]
    /\ UNCHANGED <<apiKey, body, text, file, completion, home, trace>>

\* One step of request r to the local state st: only r's locals change.
Step(r, st) ==
    /\ pc' = [pc EXCEPT ![r] = st.pc]
    /\ cvText' = [cvText EXCEPT ![r] = st.cvText]
    /\ prompt' = [prompt EXCEPT ![r] = st.prompt]
    /\ calls' = [calls EXCEPT ![r] = calls[r] + st.calls]
    /\ resp' = [resp EXCEPT ![r] = st.resp]
    /\ UNCHANGED <<apiKey, body, text, file, completion, home, trace>>

\* The handler when req.formData() rejects: the outer catch answers.
ReadFailed(b) ==
    [pc |-> "done", cvText |-> <<>>, prompt |-> <<>>, calls |-> 0,
     resp |-> CaughtResponse(formData(b).message)]

\* POST when the body cannot be read as a form.
ReadFails(r) ==
    /\ pc[r] = "start"
    /\ ~formData(body[r]).ok
    /\ Step(r, ReadFailed(body[r]))

\* POST up to the await of processFile, or of the model call when no file
\* was sent.
Validate(r) ==
    /\ pc[r] = "start"
    /\ formData(body[r]).ok
    /\ Step(r, Validated(text[r], file[r], apiKey))

\* POST from processFile's return or throw to the model call.
Extract(r) ==
    /\ pc[r] = "extract"
    /\ Step(r, Extracted(file[r], cvText[r]))

\* Variant: a rejected call is made once more.
AnswerWithRetry(r, cpl) ==
    IF cpl.threw /\ calls[r] < 2
    THEN /\ calls' = [calls EXCEPT ![r] = calls[r] + 1]
         /\ completion' = [completion EXCEPT ![r] = cpl]
         /\ UNCHANGED <<apiKey, pc, body, text, file, cvText, prompt, resp, home, trace>>
    ELSE /\ pc' = [pc EXCEPT ![r] = "done"]
         /\ completion' = [completion EXCEPT ![r] = cpl]
         /\ resp' = [resp EXCEPT ![r] = Finish(cpl)]
         /\ UNCHANGED <<apiKey, body, text, file, cvText, prompt, calls, home, trace>>

\* POST from the settled model call to its response.
Answer(r, cpl) ==
    /\ pc' = [pc EXCEPT ![r] = "done"]
    /\ completion' = [completion EXCEPT ![r] = cpl]
    /\ resp' = [resp EXCEPT ![r] = Finish(cpl)]
    /\ UNCHANGED <<apiKey, body, text, file, cvText, prompt, calls, home, trace>>

\* openai.chat.completions.create rejects: the outer catch answers.
ModelThrows(r) ==
    /\ pc[r] = "await"
    /\ \E m \in ErrMessages : Answer(r, CallThrew(m))

\* openai.chat.completions.create resolves with one of the completions C:
\* POST from there to its response.
ModelReturns(r, C) ==
    /\ pc[r] = "await"
    /\ \E cpl \in C : Answer(r, cpl)

Init == InitWith({1}, {FormData, Json}, Texts, Files, BOOLEAN)

Next ==
    \E r \in Requests :
        \/ ReadFails(r)
        \/ Validate(r)
        \/ Extract(r)
        \/ ModelThrows(r)
        \/ ModelReturns(r, ParseCompletions)

Spec == Init /\ [][Next]_vars

(***************************************************************************)
(* Two concurrent requests over a small set of forms.                      *)
(***************************************************************************)
PairTexts == {NoText, TextPart(<<" ">>), TextPart(<<"a">>)}

PairFiles ==
    {NoFile, FilePart(PLAIN, <<>>, FALSE), FilePart(PLAIN, <<" ">>, FALSE),
     FilePart(PLAIN, <<"b">>, FALSE), FilePart(PDF, <<"b">>, TRUE),
     FilePart(PNG, <<"b">>, FALSE)}

PairCompletions ==
    {NoChoices, Content(<<Prose>>), Content(<<LBrace, ScoreMember, RBrace>>)}

InitPair == InitWith({1, 2}, {FormData}, PairTexts, PairFiles, BOOLEAN)

NextPair ==
    \E r \in Requests :
        \/ Validate(r)
        \/ Extract(r)
        \/ ModelThrows(r)
        \/ ModelReturns(r, PairCompletions)

SpecPair == InitPair /\ [][NextPair]_vars

(***************************************************************************)
(* One valid text submission, answered by objects whose fields range over  *)
(* values of every JSON type.                                              *)
(***************************************************************************)
ScoreChars == {" ", "7", "a", "-", "."}

ScoreVals ==
    {Null, True, False, Infinity, NestedObj, Arr(<<>>), Arr(<<Num(50)>>)}
        \cup {Num(n) : n \in (0 - NumSpan)..(10 * MaxScore + NumSpan)}
        \cup {StrVal(s) : s \in SeqsUpTo(ScoreChars, MaxScoreStr)}

Elements == {StrVal(<<>>), StrVal(<<"a">>), StrVal(<<"b">>), Num(0), Null, Arr(<<>>)}

RECURSIVE Repeat(_, _)
Repeat(b, k) == IF k = 0 THEN <<>> ELSE b \o Repeat(b, k - 1)

\* Arrays: a short run of any elements, then one element repeated.
Arrays ==
    {b \o Repeat(<<e>>, k) :
        b \in SeqsUpTo(Elements, MaxBase), e \in Elements, k \in 0..MaxRep}

ListVals == {Null, Num(70), StrVal(<<"a">>), NestedObj} \cup {Arr(l) : l \in Arrays}

ListKeys == {"strengths", "weaknesses", "suggestions"}

ScoreMembers == {Member("score", v) : v \in ScoreVals}

ListMembers == {Member(key, v) : key \in ListKeys, v \in ListVals}

SomeScores == {Member("score", v) : v \in {Null, Num(70), Num(150), StrVal(<<"a">>)}}

SomeLists(key) ==
    {Member(key, v) :
        v \in {Null, Arr(<<>>), Arr(<<StrVal(<<"a">>)>>),
               Arr(<<StrVal(<<"b">>), StrVal(<<>>), StrVal(<<"b">>)>>)}}

\* Objects with all four fields, a list of every length and every score.
FullObjects ==
    {<<Member("strengths", Arr(Repeat(<<StrVal(<<"b">>)>>, k))),
       Member("weaknesses", Arr(<<StrVal(<<"a">>)>>)),
       Member("suggestions", Arr(<<StrVal(<<"a">>), StrVal(<<"b">>)>>)),
       Member("score", Num(10 * n))>> : k \in 0..MaxRep, n \in 0..(MaxScore + 1)}

MemberSeqs ==
    {<<>>}
        \cup FullObjects
        \cup {<<m>> : m \in ScoreMembers \cup ListMembers}
        \cup {<<m1, m2>> : m1 \in SomeScores, m2 \in SomeScores}
        \cup {<<m1, m2, m3, m4>> :
                m1 \in SomeLists("strengths"), m2 \in SomeLists("weaknesses"),
                m3 \in SomeLists("suggestions"), m4 \in SomeScores}

\* {"strengths":["a"],"weaknesses":[],"suggestions":["b","b",""],"score":15}
ExampleObject ==
    <<Member("strengths", Arr(<<StrVal(<<"a">>)>>)),
      Member("weaknesses", Arr(<<>>)),
      Member("suggestions", Arr(<<StrVal(<<"b">>), StrVal(<<"b">>), StrVal(<<>>)>>)),
      Member("score", Num(150))>>

\* Objects sent with prose around them.
WrappedObjects == {<<m>> : m \in SomeScores} \cup {ExampleObject} \cup FullObjects

FieldContents ==
    {<<LBrace>> \o ms \o <<RBrace>> : ms \in MemberSeqs}
        \cup {<<Prose, LBrace>> \o ms \o <<RBrace>> : ms \in WrappedObjects}
        \cup {<<Prose, LBrace>> \o ms \o <<RBrace, Prose>> : ms \in WrappedObjects}

FieldCompletions == {Content(c) : c \in FieldContents}

FieldTexts == {TextPart(<<"a">>), TextPart(<<" ", "a">>)}

InitFields == InitWith({1}, {FormData}, FieldTexts, {NoFile}, {TRUE})

NextFields ==
    \E r \in Requests :
        \/ Validate(r)
        \/ ModelReturns(r, FieldCompletions)

SpecFields == InitFields /\ [][NextFields]_vars

(***************************************************************************)
(* The page of either component under the user's events and the settling   *)
(* of its fetch.  An event is possible when its element is rendered and    *)
(* not disabled.                                                           *)
(***************************************************************************)
UserFiles ==
    {UserFile("cv.pdf", PDF, 2048), UserFile("cv.txt", PLAIN, 500),
     UserFile("photo.png", PNG, 1536), UserFile("big.pdf", PDF, 6 * Kilo * Kilo)}

Typed == SeqsUpTo(TextChars, MaxText)

SomeReview ==
    [strengths |-> <<(<<"a">>)>>, weaknesses |-> <<>>, suggestions |-> <<>>,
     score |-> 7]

Outcomes ==
    {FetchThrew(""), FetchThrew("Failed to fetch"),
     FetchReturned(FALSE, "", EmptyReview),
     FetchReturned(FALSE, "No text content found to analyze", EmptyReview),
     FetchReturned(TRUE, "", SomeReview)}

\* The upload section of the second component is rendered while there is
\* no review; the form of the first always.
UploadShown == home.component = "first" \/ ~home.review.present

Event(h, name, v) ==
    /\ home' = h
    /\ trace' = [trace EXCEPT !.event = name, !.typed = v,
                              !.hadFile = home.fileState.file.present]
    /\ UNCHANGED <<apiKey, pc, body, text, file, cvText, prompt, calls,
                   completion, resp>>

FileChanges ==
    /\ UploadShown
    /\ ~home.loading
    /\ \E f \in UserFiles \cup {NoUserFile} :
        Event(handleFileChange(home, f), "fileChange", <<>>)

Drops ==
    /\ home.component = "second"
    /\ UploadShown
    /\ \E f \in UserFiles \cup {NoUserFile} :
        Event(handleDrop(home, f), "drop", <<>>)

DragsOver ==
    /\ home.component = "second"
    /\ UploadShown
    /\ Event(handleDragOver(home), "dragOver", <<>>)

DragLeaves ==
    /\ home.component = "second"
    /\ UploadShown
    /\ Event(handleDragLeave(home), "dragLeave", <<>>)

Types ==
    /\ UploadShown
    /\ ~home.loading
    /\ \E v \in Typed :
        /\ v # home.text
        /\ Event(onChange(home, v), "change", v)

\* The Clear button of the first component, the X button of the second.
Clears ==
    /\ UploadShown
    /\ home.fileState.file.present
    /\ ~home.loading
    /\ Event(IF home.component = "first" THEN Clear(home) ELSE resetForm(home),
             "clear", <<>>)

\* The "Analyze Another CV" button of the second component.
AnalyzesAnother ==
    /\ home.component = "second"
    /\ home.review.present
    /\ Event(resetForm(home), "reset", <<>>)

Submits ==
    /\ UploadShown
    /\ ~disabled(home)
    /\ home' = handleSubmit(home)
    /\ trace' = [event |-> "submit", typed |-> <<>>,
                 hadFile |-> home.fileState.file.present,
                 formData |-> FormOf(home)]
    /\ UNCHANGED <<apiKey, pc, body, text, file, cvText, prompt, calls,
                   completion, resp>>

FetchSettles ==
    /\ home.loading
    /\ \E out \in Outcomes : Event(Settled(home, out), "settled", <<>>)

InitPage ==
    /\ apiKey = TRUE
    /\ body = [r \in Requests |-> FormData]
    /\ pc = [r \in Requests |-> "off"]
    /\ text = [r \in Requests |-> NoText]
    /\ file = [r \in Requests |-> NoFile]
    /\ cvText = [r \in Requests |-> <<>>]
    /\ prompt = [r \in Requests |-> <<>>]
    /\ calls = [r \in Requests |-> 0]
    /\ completion = [r \in Requests |-> NoCompletion]
    /\ resp = [r \in Requests |-> NoResponse]
    /\ home \in {Mounted("first"), Mounted("second")}
    /\ trace = NoTrace

NextPage ==
    \/ FileChanges
    \/ Drops
    \/ DragsOver
    \/ DragLeaves
    \/ Types
    \/ Clears
    \/ AnalyzesAnother
    \/ Submits
    \/ FetchSettles

SpecPage == InitPage /\ [][NextPage]_vars

(***************************************************************************)
(* Properties.                                                             *)
(***************************************************************************)
Done(r) == pc[r] = "done"

\* The model call of request r resolved, and the handler has answered.
Answered(r) == Done(r) /\ calls[r] = 1 /\ ~completion[r].threw

\* The raw model response the handler parsed.
Raw(r) == ContentOrDefault(completion[r])

IsError(r, status) == resp[r].status = status /\ resp[r].kind = "error"

Unparseable(c) ==
    /\ ~JSONParse(c).ok
    /\ ~RegexMatch(c).found \/ ~JSONParse(RegexMatch(c).sub).ok

\* C1: whenever the whole response fails to parse and the substring from the
\* first "{" to the last "}" is missing or fails to parse too, the answer is
\* 502 with an error body.
C1_UnparseableIs502 ==
    \A r \in Requests : Answered(r) /\ Unparseable(Raw(r)) => IsError(r, 502)

\* C2 as stated: a completion without content is answered by an error, never
\* by a 200 Review.
C2_NoContentFails ==
    \A r \in Requests :
        Answered(r) /\ ~(completion[r].choice /\ completion[r].hasContent)
            => resp[r].kind = "error" /\ resp[r].status # 200

\* C2 amended: a completion without content (no choices, or no message
\* content) is read as the empty object and answered 200 with three empty
\* lists and score 0.
C2_NoContentDefaults ==
    \A r \in Requests :
        Answered(r) /\ ~(completion[r].choice /\ completion[r].hasContent)
            => resp[r] = ReviewResponse(EmptyReview)

C2_Witness ==
    \E r \in Requests :
        Answered(r) /\ completion[r].choice /\ ~completion[r].hasContent

Unsupported(f) == f.present /\ f.type \notin {PDF, DOCX, PLAIN}

\* C3 as stated: a file of an unsupported type is answered 400 without a
\* model call, whether or not the API key is set.
C3_UnsupportedAlways400 ==
    \A r \in Requests :
        Unsupported(file[r]) => calls[r] = 0 /\ (Done(r) => IsError(r, 400))

\* C3 amended: a file of an unsupported type never reaches the model; it is
\* answered 400 when the API key is set and 500 when it is not.
C3_UnsupportedType ==
    \A r \in Requests :
        Unsupported(file[r]) =>
            /\ calls[r] = 0
            /\ Done(r) => IF apiKey THEN IsError(r, 400) ELSE IsError(r, 500)

C3_Witness ==
    \E r \in Requests : Unsupported(file[r]) /\ apiKey /\ IsError(r, 400)

\* C4: a form with neither a text part nor a file part is answered 400 with
\* an error body and never reaches the model, whatever the configuration.
C4_NoInputIs400 ==
    \A r \in Live :
        body[r] = FormData /\ ~text[r].present /\ ~file[r].present =>
            /\ calls[r] = 0
            /\ pc[r] \in {"start", "done"}
            /\ Done(r) => IsError(r, 400)

C4_Witness ==
    \E r \in Live :
        /\ body[r] = FormData /\ ~text[r].present /\ ~file[r].present
        /\ ~apiKey /\ IsError(r, 400)

TextOnly(r) ==
    r \in Live /\ body[r] = FormData /\ TextGiven(text[r]) /\ ~file[r].present

\* C5 as stated: every non-empty text sent without a file (key set) reaches
\* the model, inside the prompt, unaltered.
C5_NonEmptyTextInPrompt ==
    \A r \in Requests :
        TextOnly(r) /\ apiKey /\ pc[r] # "start"
            => calls[r] = 1 /\ Contains(prompt[r], text[r].value)

\* C5 amended: every text that is non-empty after trimming, sent without a
\* file (key set), reaches the model inside the prompt, unaltered and
\* untrimmed; a text of white space only is answered 400 without a call.
C5_NonBlankTextInPrompt ==
    \A r \in Requests :
        TextOnly(r) /\ apiKey /\ pc[r] # "start" =>
            IF Trim(text[r].value) # <<>>
            THEN /\ calls[r] = 1
                 /\ Contains(prompt[r], text[r].value)
                 /\ prompt[r] = PromptHead \o text[r].value \o PromptTail
            ELSE calls[r] = 0 /\ IsError(r, 400)

C5_Witness ==
    \E r \in Requests :
        /\ TextOnly(r) /\ apiKey /\ calls[r] = 1
        /\ text[r].value # Trim(text[r].value)
        /\ Contains(prompt[r], text[r].value)

\* C7: a response that parses to something other than an object is answered
\* 502, and a 200 is given only when an object was obtained.
C7_OnlyObjectsSucceed ==
    \A r \in Requests :
        Answered(r) =>
            LET got == TryParse(Raw(r))
                isValue == ~got.threw /\ ~got.isNull
            IN  /\ resp[r].status = 200 => isValue /\ got.parsed.isObj
                /\ isValue /\ ~got.parsed.isObj => IsError(r, 502)

\* C6: when a file part is present the text part decides nothing: the
\* content checked for emptiness and put in the prompt is the file's text, a
\* file with blank text is answered 400 (key set) whatever the text part, and
\* two requests with the same file and the same model outcome get the same
\* response.
C6_FileOverridesText ==
    /\ \A r \in Requests :
        file[r].present =>
            /\ calls[r] = 1 =>
                /\ cvText[r] = file[r].content
                /\ prompt[r] = PromptHead \o file[r].content \o PromptTail
            /\ Done(r) /\ apiKey /\ processFile(file[r]).ok
                    /\ Trim(file[r].content) = <<>>
                => calls[r] = 0 /\ IsError(r, 400)
    /\ \A r1, r2 \in Requests :
        /\ Done(r1) /\ Done(r2)
        /\ file[r1].present /\ file[r1] = file[r2]
        /\ completion[r1] = completion[r2]
        => resp[r1] = resp[r2] /\ calls[r1] = calls[r2] /\ prompt[r1] = prompt[r2]

C6_Witness ==
    \E r1, r2 \in Requests :
        /\ Done(r1) /\ Done(r2) /\ apiKey
        /\ file[r1].present /\ file[r1] = file[r2]
        /\ Trim(file[r1].content) = <<>>
        /\ TextGiven(text[r1]) /\ Trim(text[r1].value) # <<>>
        /\ text[r1] # text[r2]
        /\ IsError(r1, 400) /\ resp[r1] = resp[r2]

\* The object the handler sanitized, and its score field.
Parsed(r) == TryParse(Raw(r)).parsed

Succeeded(r) == Answered(r) /\ resp[r].status = 200

\* C8: in a 200 response the score is 0 when the number the score field
\* coerces to is not finite, and otherwise the nearest integer (halves
\* upwards) clamped into 1..10; so it is an integer in 0..10.
C8_ScoreRule ==
    \A r \in Requests :
        Succeeded(r) =>
            LET num == ToNumber(Field(Parsed(r), "score"))
                score == resp[r].review.score
            IN  /\ score \in 0..MaxScore
                /\ num.k # "fin" => score = 0
                /\ num.k = "fin" =>
                    /\ score \in MinScore..MaxScore
                    /\ num.n < 10 * MinScore + 5 => score = MinScore
                    /\ num.n >= 10 * MaxScore - 5 => score = MaxScore
                    /\ num.n >= 10 * MinScore + 5 /\ num.n < 10 * MaxScore - 5
                        => 10 * score - 5 <= num.n /\ num.n < 10 * score + 5

C8_Witness ==
    \E r \in Requests :
        /\ Succeeded(r)
        /\ Field(Parsed(r), "score").t = "num"
        /\ Field(Parsed(r), "score").n % 10 = 5
        /\ resp[r].review.score \in (MinScore + 1)..(MaxScore - 1)
        /\ 10 * resp[r].review.score = Field(Parsed(r), "score").n + 5

Unusable(x) ==
    \/ x.t \in {"undef", "null"}
    \/ x.t = "str" /\ x.s = <<>>
    \/ ToNumber(x).k = "nan"

\* C9 as stated: the score is 0 exactly when the score field is absent, null,
\* the empty string or not numeric.
C9_ZeroIffUnusable ==
    \A r \in Requests :
        Succeeded(r) =>
            (resp[r].review.score = 0 <=> Unusable(Field(Parsed(r), "score")))

\* C9 amended: the score is 0 exactly when the score field does not coerce to
\* a finite number: an absent or non-numeric field gives 0, while null and
\* the empty (or blank) string coerce to the number 0 and give 1.
C9_ZeroIffNotFinite ==
    \A r \in Requests :
        Succeeded(r) =>
            LET x == Field(Parsed(r), "score")
                score == resp[r].review.score
            IN  /\ score = 0 <=> ToNumber(x).k # "fin"
                /\ x.t = "undef" => score = 0
                /\ (x.t = "str" /\ \E i \in 1..Len(x.s) : x.s[i] = "a") => score = 0
                /\ x.t = "null" => score = MinScore
                /\ x.t = "str" /\ Trim(x.s) = <<>> => score = MinScore

C9_Witness ==
    \E r \in Requests :
        Succeeded(r) /\ Field(Parsed(r), "score") = Null /\ resp[r].review.score = 1

\* The indices of the elements of array a whose string form is not empty.
Kept(a) == {i \in 1..Len(a) : StringOf(a[i]) # <<>>}

\* C10: each returned list is empty when the field is not an array, and
\* otherwise holds the non-empty string forms of the array's elements, in
\* their order, up to the tenth; so it has at most 10 entries, none empty.
C10_ListRule ==
    \A r \in Requests :
        Succeeded(r) =>
            \A key \in ListKeys :
                LET x == Field(Parsed(r), key)
                    out == resp[r].review[key]
                IN  /\ Len(out) <= MaxItems
                    /\ \A j \in 1..Len(out) : out[j] # <<>>
                    /\ x.t # "arr" => out = <<>>
                    /\ x.t = "arr" =>
                        /\ Len(out) = Min(MaxItems, Cardinality(Kept(x.a)))
                        /\ \A j \in 1..Len(out) :
                            out[j] = StringOf(x.a[CHOOSE i \in Kept(x.a) :
                                        Cardinality({h \in Kept(x.a) : h <= i}) = j])

C10_Witness ==
    \E r \in Requests :
        /\ Succeeded(r)
        /\ \E key \in ListKeys :
            LET x == Field(Parsed(r), key)
            IN  /\ x.t = "arr"
                /\ Cardinality(Kept(x.a)) > MaxItems
                /\ Cardinality(Kept(x.a)) < Len(x.a)
                /\ Len(resp[r].review[key]) = MaxItems

\* The parse of request r's model response gave a JSON object.
ObjectObtained(r) ==
    LET got == TryParse(Raw(r))
    IN  ~got.threw /\ ~got.isNull /\ got.parsed.isObj

MatchesSchema(p) ==
    /\ p.isObj
    /\ \A key \in ListKeys :
        /\ p.fields[key].t = "arr"
        /\ Len(p.fields[key].a) <= MaxItems
        /\ \A i \in 1..Len(p.fields[key].a) :
            p.fields[key].a[i].t = "str" /\ p.fields[key].a[i].s # <<>>
    /\ p.fields["score"].t = "num"
    /\ p.fields["score"].n % 10 = 0
    /\ p.fields["score"].n \div 10 \in MinScore..MaxScore

\* The strings of an array of strings.
Strings(a) == [i \in 1..Len(a) |-> a[i].s]

\* C12: a well-formed JSON object that already matches the Review schema is
\* answered 200 with exactly that object.
C12_ValidReviewUnchanged ==
    \A r \in Requests :
        Answered(r) /\ JSONParse(Raw(r)).ok /\ MatchesSchema(JSONParse(Raw(r))) =>
            /\ resp[r].status = 200
            /\ resp[r].kind = "review"
            /\ \A key \in ListKeys :
                resp[r].review[key] = Strings(JSONParse(Raw(r)).fields[key].a)
            /\ resp[r].review.score = JSONParse(Raw(r)).fields["score"].n \div 10

C12_Witness ==
    \E r \in Requests :
        /\ Answered(r) /\ JSONParse(Raw(r)).ok /\ MatchesSchema(JSONParse(Raw(r)))
        /\ Len(resp[r].review.strengths) = MaxItems
        /\ Len(resp[r].review.suggestions) = 2
        /\ resp[r].review.score = 7

\* The response is prose around one object: not JSON as a whole, while the
\* substring from its first "{" to its last "}" is a JSON object.
WrappedObject(c) ==
    /\ ~JSONParse(c).ok
    /\ RegexMatch(c).found
    /\ JSONParse(RegexMatch(c).sub).ok
    /\ JSONParse(RegexMatch(c).sub).isObj

\* C13: prose around one JSON object is answered 200 with the sanitization
\* of that object: no empty list entry, the score clamped; the object with
\* lists ["a"], [], ["b","b",""] and score 15 gives ["a"], [], ["b","b"], 10.
C13_WrappedObjectSanitized ==
    \A r \in Requests :
        Answered(r) /\ WrappedObject(Raw(r)) =>
            LET inner == JSONParse(RegexMatch(Raw(r)).sub)
                members == SubSeq(RegexMatch(Raw(r)).sub, 2,
                                  Len(RegexMatch(Raw(r)).sub) - 1)
            IN  /\ resp[r].status = 200
                /\ resp[r].kind = "review"
                /\ resp[r].review = sanitize(inner)
                /\ \A key \in ListKeys :
                    \A j \in 1..Len(resp[r].review[key]) :
                        resp[r].review[key][j] # <<>>
                /\ resp[r].review.score \in 0..MaxScore
                /\ members = ExampleObject =>
                    resp[r].review =
                        [strengths |-> <<(<<"a">>)>>,
                         weaknesses |-> <<>>,
                         suggestions |-> <<(<<"b">>), (<<"b">>)>>,
                         score |-> 10]

C13_Witness ==
    \E r \in Requests :
        /\ Answered(r) /\ WrappedObject(Raw(r))
        /\ Raw(r) = <<Prose, LBrace>> \o ExampleObject \o <<RBrace>>
        /\ resp[r].status = 200
        /\ resp[r].review.score = 10
        /\ Len(resp[r].review.suggestions) = 2

\* C14: a response that is not JSON and has no "{" followed later by a "}"
\* is answered 502 with an error body.
C14_NoObjectIs502 ==
    \A r \in Requests :
        Answered(r) /\ ~JSONParse(Raw(r)).ok /\ ~RegexMatch(Raw(r)).found =>
            /\ IsError(r, 502)
            /\ resp[r].error = "Failed to parse model response"

C14_Witness ==
    \E r \in Requests :
        /\ Answered(r)
        /\ Raw(r) = <<Prose>>
        /\ ~JSONParse(Raw(r)).ok /\ ~RegexMatch(Raw(r)).found
        /\ IsError(r, 502)

\* The content request r selects: the text extracted from its file when it
\* sent one, otherwise its text part.
HasSelected(r) ==
    /\ body[r] = FormData
    /\ file[r].present => processFile(file[r]).ok

SelectedContent(r) ==
    IF file[r].present THEN processFile(file[r]).text ELSE TextOrEmpty(text[r])

\* C15: the model is invoked only with selected content that is non-empty
\* after trimming; a request whose selected content is blank never reaches
\* the model and is answered with an error.
C15_CallOnlyWithContent ==
    \A r \in Requests :
        /\ calls[r] >= 1 \/ pc[r] = "await" =>
            /\ HasSelected(r)
            /\ Trim(SelectedContent(r)) # <<>>
            /\ cvText[r] = SelectedContent(r)
        /\ HasSelected(r) /\ Trim(SelectedContent(r)) = <<>> =>
            /\ calls[r] = 0
            /\ pc[r] # "await"
            /\ completion[r] = NoCompletion
            /\ Done(r) => resp[r].kind = "error" /\ resp[r].status \in {400, 500}

C15_Witness ==
    \E r \in Requests :
        /\ Done(r)
        /\ file[r].present
        /\ HasSelected(r)
        /\ SelectedContent(r) = <<" ">>
        /\ TextGiven(text[r]) /\ Trim(TextOrEmpty(text[r])) # <<>>
        /\ apiKey
        /\ calls[r] = 0
        /\ IsError(r, 400)

\* Request r is a form with non-blank text, or with a file of a supported
\* type whose extracted text is non-blank.
ValidContent(r) ==
    /\ body[r] = FormData
    /\ \/ TextGiven(text[r]) /\ Trim(TextOrEmpty(text[r])) # <<>>
       \/ /\ file[r].present
          /\ processFile(file[r]).ok
          /\ Trim(processFile(file[r]).text) # <<>>

\* C16: without an API key the model is never invoked, and every finished
\* request with valid content is answered 500 with an error body.
C16_NoKeyNoCall ==
    ~apiKey =>
        \A r \in Requests :
            /\ calls[r] = 0
            /\ pc[r] \notin {"extract", "await"}
            /\ completion[r] = NoCompletion
            /\ Done(r) /\ ValidContent(r) =>
                /\ IsError(r, 500)
                /\ resp[r].error = "OPENAI_API_KEY is not set on server"

C16_Witness ==
    \E r \in Requests :
        /\ ~apiKey
        /\ Done(r)
        /\ ValidContent(r)
        /\ file[r].present /\ ~TextGiven(text[r])
        /\ IsError(r, 500)

\* C17: a request makes at most one model call; once the call has settled,
\* by throwing or with a response that cannot be parsed or any other, the
\* request is finished with that one call, and a call that threw has ended
\* it with an error response.
C17_AtMostOneCall ==
    \A r \in Requests :
        /\ calls[r] \in {0, 1}
        /\ pc[r] = "await" => calls[r] = 1 /\ completion[r] = NoCompletion
        /\ completion[r] # NoCompletion => Done(r) /\ calls[r] = 1
        /\ Done(r) /\ calls[r] = 1 /\ completion[r].threw =>
            resp[r].kind = "error" /\ resp[r].status = 500
        /\ Done(r) /\ calls[r] = 1 /\ ~completion[r].threw /\ Unparseable(Raw(r)) =>
            resp[r].kind = "error"

C17_Witness ==
    \E r \in Requests :
        /\ Done(r)
        /\ calls[r] = 1
        /\ completion[r] = CallThrew("Connection error.")
        /\ IsError(r, 500)

\* The handler of request r can take a step.
CanStep(r) ==
    ENABLED (\/ ReadFails(r) \/ Validate(r) \/ Extract(r)
             \/ ModelThrows(r) \/ ModelReturns(r, ParseCompletions))

IsErrorBody(r) ==
    /\ resp[r].kind = "error"
    /\ resp[r].status \in {400, 500, 502}

\* C18: a request has no response while it is handled and can then go on; a
\* finished request has one response, an error body with 400, 500 or 502 or
\* the review with 200, and takes no further step; a failure to read the
\* form, to extract the file, of the model call or of the parse each ends
\* as an error body.
C18_OneResponseNoEscape ==
    \A r \in Requests :
        /\ pc[r] \in {"start", "extract", "await"} =>
            resp[r] = NoResponse /\ CanStep(r)
        /\ Done(r) =>
            /\ ~CanStep(r)
            /\ \/ IsErrorBody(r)
               \/ resp[r].kind = "review" /\ resp[r].status = 200
        /\ Done(r) /\ ~formData(body[r]).ok => IsErrorBody(r)
        /\ Done(r) /\ cvText[r] = TextOrEmpty(text[r]) /\ calls[r] = 0
              /\ file[r].present /\ ~processFile(file[r]).ok => IsErrorBody(r)
        /\ Done(r) /\ completion[r].threw => IsErrorBody(r)
        /\ Done(r) /\ calls[r] = 1 /\ ~completion[r].threw /\ Unparseable(Raw(r)) =>
            IsErrorBody(r)

C18_Witness ==
    \E r \in Requests :
        /\ Done(r)
        /\ ~formData(body[r]).ok
        /\ TextGiven(text[r])
        /\ IsError(r, 500)
        /\ ~CanStep(r)

\* The model, if it was called for request r, returned a valid Review.
NoModelFault(r) ==
    \/ calls[r] = 0
    \/ /\ ~completion[r].threw
       /\ JSONParse(Raw(r)).ok
       /\ MatchesSchema(JSONParse(Raw(r)))

\* C19: a request whose body is the JSON document {"text": t} with t not
\* blank, the API key set and no fault of the model, is answered 200 with
\* the review.
C19_JsonBodyReviewed ==
    \A r \in Requests :
        /\ Done(r)
        /\ body[r] = Json
        /\ TextGiven(text[r]) /\ Trim(TextOrEmpty(text[r])) # <<>>
        /\ apiKey
        /\ NoModelFault(r)
        => resp[r].status = 200 /\ resp[r].kind = "review"

\* C20: two requests with the same form whose model calls both threw, with
\* whatever messages, get the same response.
C20_FaultBodyIndependent ==
    \A r1, r2 \in Requests :
        /\ Done(r1) /\ Done(r2)
        /\ body[r1] = body[r2] /\ text[r1] = text[r2] /\ file[r1] = file[r2]
        /\ completion[r1] # NoCompletion /\ completion[r1].threw
        /\ completion[r2] # NoCompletion /\ completion[r2].threw
        => resp[r1] = resp[r2]

\* The locals of request r, and what its own form, the configuration and
\* its own completion make them at each point of the handler.
Local(r) ==
    [pc |-> pc[r], cvText |-> cvText[r], prompt |-> prompt[r],
     calls |-> calls[r], resp |-> resp[r]]

StartLocal ==
    [pc |-> "start", cvText |-> <<>>, prompt |-> <<>>, calls |-> 0,
     resp |-> NoResponse]

AfterValidate(r) ==
    IF formData(body[r]).ok THEN Validated(text[r], file[r], apiKey)
    ELSE ReadFailed(body[r])

BeforeCall(r) ==
    IF AfterValidate(r).pc = "extract"
    THEN Extracted(file[r], AfterValidate(r).cvText)
    ELSE AfterValidate(r)

AfterCall(r) ==
    [BeforeCall(r) EXCEPT !.pc = "done", !.resp = Finish(completion[r])]

\* C21: in every interleaving of two requests, the locals of each, its
\* response included, are what its own form, the configuration and its own
\* completion determine: nothing of the other request is in them.
C21_RequestsIsolated ==
    \A r \in Requests :
        /\ ~Done(r) =>
            /\ Local(r) \in {StartLocal, AfterValidate(r), BeforeCall(r)}
            /\ completion[r] = NoCompletion
        /\ Done(r) /\ BeforeCall(r).pc = "await" =>
            /\ Local(r) = AfterCall(r)
            /\ resp[r] = Finish(completion[r])
        /\ Done(r) /\ BeforeCall(r).pc # "await" =>
            /\ Local(r) = BeforeCall(r)
            /\ completion[r] = NoCompletion

\* Request 2 went through its model call and was answered while request 1,
\* with another form, is waiting for its own.
C21_Witness ==
    /\ pc[1] = "await"
    /\ Done(2)
    /\ calls[2] = 1
    /\ completion[2] = Content(<<LBrace, ScoreMember, RBrace>>)
    /\ cvText[1] # cvText[2]
    /\ file[1].present /\ ~file[2].present
    /\ resp[2].kind = "review"

\* C22: in the page of either component, after any events, never is the
\* text non-empty while a file is selected; after a file input change or a
\* drop a selected file comes with an empty text, and after typing no file
\* is selected.
C22_TextOrFile ==
    /\ ~(home.text # <<>> /\ home.fileState.file.present)
    /\ trace.event \in {"fileChange", "drop"} /\ home.fileState.file.present =>
        home.text = <<>>
    /\ trace.event = "change" => ~home.fileState.file.present

C22_Witness ==
    /\ trace.event = "change"
    /\ trace.hadFile
    /\ home.text # <<>>
    /\ ~home.fileState.file.present
    /\ trace.formData.file.present
    /\ home.review.present

\* C23: after the user typed a value while a file was selected, the file is
\* cleared and the text is the value typed.
C23_TypingKeepsInput ==
    trace.event = "change" /\ trace.hadFile =>
        /\ ~home.fileState.file.present
        /\ home.text = trace.typed

\* C24: while the request is in flight the selected file and the text are
\* those that were submitted, and the file named beside the review that
\* comes back is the file submitted for it.
C24_FrozenWhileLoading ==
    /\ home.loading =>
        /\ home.fileState.file = trace.formData.file
        /\ FormOf(home) = trace.formData
    /\ home.component = "second" /\ home.review.present
          /\ home.fileState.file.present =>
        home.fileState.fileName = trace.formData.file.name

\* A Review as the parsed JSON object it is sent as.
AsParsed(rev) ==
    [ok |-> TRUE, isObj |-> TRUE, atom |-> Undefined,
     fields |-> [key \in Keys |->
        IF key = "score" THEN Num(10 * rev.score)
        ELSE Arr([i \in 1..Len(rev[key]) |-> StrVal(rev[key][i])])]]

\* C25 as stated: sanitizing a Review the handler produced gives it back.
C25_SanitizeIdempotent ==
    \A r \in Requests :
        Answered(r) /\ resp[r].kind = "review" =>
            sanitize(AsParsed(resp[r].review)) = resp[r].review

\* C25, amended: sanitizing a Review the handler produced gives back its
\* three lists, and its score when that is in 1..10; the score 0 of a
\* degraded Review is a finite number and comes back as 1.
C25_IdempotentButForZero ==
    \A r \in Requests :
        Answered(r) /\ resp[r].kind = "review" =>
            LET rev == resp[r].review
                again == sanitize(AsParsed(rev))
            IN  /\ \A key \in ListKeys : again[key] = rev[key]
                /\ rev.score \in MinScore..MaxScore => again = rev
                /\ rev.score = 0 => again = [rev EXCEPT !.score = MinScore]
                /\ sanitize(AsParsed(again)) = again

C25_Witness ==
    \E r \in Requests :
        /\ Answered(r) /\ resp[r].kind = "review"
        /\ resp[r].review.score = 0
        /\ resp[r].review.suggestions # <<>>
        /\ sanitize(AsParsed(resp[r].review)).score = MinScore

=============================================================================
